---- MODULE Spec2Model ----
(***************************************************************************)
(* Model of remove_watched_movies.py: one run of the script that lists the *)
(* movies watched in Plex more than N days ago, matches them with Radarr   *)
(* by TMDb ID and, when asked, deletes them from Radarr and adds them to   *)
(* Radarr's exclusion list.                                                *)
(*                                                                         *)
(* Python strings that the code inspects (prefix test, split, strip,       *)
(* lower, str()) are sequences of one-character strings; strings that are  *)
(* only compared and tested for emptiness (titles) are TLA+ strings.       *)
(* A Python value that may be None is a record [t, v] with t = "none".     *)
(***************************************************************************)
EXTENDS Integers, Sequences, FiniteSets, TLC

VARIABLES
    \* ---- configuration and command line
    radarr_configured,   \* RADARR_URL and RADARR_API_KEY are both set
    plex_configured,     \* PLEX_URL and PLEX_TOKEN are both set
    args,                \* [days, process_radarr, no_prompt]
    now,                 \* datetime.now() of the run, in days
    \* ---- the Radarr server
    radarr_tag_list,     \* tags of the server: sequence of [id, label]
    radarr_catalog,      \* movies of the server: sequence of entries
    radarr_exclusions,   \* TMDb IDs on the server's exclusion list
    \* ---- the script
    pc,                  \* position of the script
    exit_code,           \* exit status of the process; -1 while it runs
    tag_ids_map,         \* dict name -> id, as a sequence of [name, id]
    EXCLUDE_TAG_IDS,     \* list(tag_ids_map.values())
    movies,              \* what the Plex search returned
    plex_watched_movies_data,
    movies_to_process_radarr, \* dict keyed by Plex title, insertion-ordered
    idx,                 \* position of the running for loop
    \* ---- observation
    matched,             \* result of the matcher for each watched item
    calls,               \* remote calls issued so far, in order
    reports,             \* per-item outcome lines printed so far
    confirmation         \* what input() did, << >> until it is called

vars == << radarr_configured, plex_configured, args, now,
           radarr_tag_list, radarr_catalog, radarr_exclusions,
           pc, exit_code, tag_ids_map, EXCLUDE_TAG_IDS, movies,
           plex_watched_movies_data, movies_to_process_radarr, idx,
           matched, calls, reports, confirmation >>

\* --------------------------------------------------------------- bounds
\* Longest list of movies the Plex search returns in a full run.
MaxMovies == 2
\* Longest list of movies the scanner is applied to on its own.
MaxScanLen == 2

\* ------------------------------------------------------ Python values
None == [t |-> "none", v |-> 0]
Int_(n) == [t |-> "int", v |-> n]
List_(s) == [t |-> "list", v |-> s]
IsNone(x) == x.t = "none"

Range(s) == { s[i] : i \in 1..Len(s) }

SeqsUpTo(S, n) == UNION { [1..k -> S] : k \in 0..n }

\* ------------------------------------------------------ Python strings
UpperCase == << "A","B","C","D","E","F","G","H","I","J","K","L","M",
                "N","O","P","Q","R","S","T","U","V","W","X","Y","Z" >>
LowerCase == << "a","b","c","d","e","f","g","h","i","j","k","l","m",
                "n","o","p","q","r","s","t","u","v","w","x","y","z" >>
Whitespace == { " ", "\t", "\n" }

\* str.lower() on one character
LowerChar(c) ==
    IF \E i \in 1..Len(UpperCase) : UpperCase[i] = c
    THEN LowerCase[CHOOSE i \in 1..Len(UpperCase) : UpperCase[i] = c]
    ELSE c

\* str.lower()
Lower(s) == [ i \in 1..Len(s) |-> LowerChar(s[i]) ]

RECURSIVE LStrip(_)
LStrip(s) ==
    IF s # << >> /\ Head(s) \in Whitespace THEN LStrip(Tail(s)) ELSE s

RECURSIVE RStrip(_)
RStrip(s) ==
    IF s # << >> /\ s[Len(s)] \in Whitespace
    THEN RStrip(SubSeq(s, 1, Len(s) - 1))
    ELSE s

\* str.strip()
Strip(s) == RStrip(LStrip(s))

\* str.startswith(p)
StartsWith(s, p) == Len(s) >= Len(p) /\ SubSeq(s, 1, Len(p)) = p

\* str.split(sep): the parts of s between the occurrences of sep, left to right
RECURSIVE SplitFrom(_, _, _)
SplitFrom(s, sep, cur) ==
    IF s = << >> THEN << cur >>
    ELSE IF StartsWith(s, sep)
         THEN << cur >> \o SplitFrom(SubSeq(s, Len(sep) + 1, Len(s)), sep, << >>)
         ELSE SplitFrom(Tail(s), sep, Append(cur, Head(s)))

Split(s, sep) == SplitFrom(s, sep, << >>)

Digits == << "0","1","2","3","4","5","6","7","8","9" >>

\* str(n) for an int n >= 0
RECURSIVE IntToStr(_)
IntToStr(n) ==
    IF n < 10 THEN << Digits[n + 1] >>
    ELSE Append(IntToStr(n \div 10), Digits[(n % 10) + 1])

\* ------------------------------------------------------------ literals
yes == << "y","e","s" >>
keep == << "k","e","e","p" >>
donotdelete == << "d","o","n","o","t","d","e","l","e","t","e" >>
tmdb_prefix == << "t","m","d","b",":","/","/" >>
slashes == << "/","/" >>

EXCLUDE_TAG_NAMES == << keep, donotdelete >>

\* ------------------------------------------------- the Plex scanner
\* A Plex movie: [title, lastViewedAt, guids, year]; lastViewedAt and year
\* are None or an int, guids is a sequence of guid id strings.

\* lines 136-140: the part after '//' of the first guid that starts with
\* 'tmdb://', or None
RECURSIVE plex_tmdb_id_of(_)
plex_tmdb_id_of(guids) ==
    IF guids = << >> THEN None
    ELSE IF StartsWith(Head(guids), tmdb_prefix)
         THEN List_(Split(Head(guids), slashes)[2])
         ELSE plex_tmdb_id_of(Tail(guids))

\* line 143
plex_movie_year_of(movie) ==
    IF ~IsNone(movie.year) /\ movie.year.v # 0 THEN movie.year.v ELSE 0

\* mutant of WatchedBefore: the cutoff itself counts as before it
WatchedBefore_inclusive(movie, threshold_date) ==
    /\ ~IsNone(movie.lastViewedAt)
    /\ movie.lastViewedAt.v <= threshold_date

\* line 133
WatchedBefore(movie, threshold_date) ==
    /\ ~IsNone(movie.lastViewedAt)
    /\ movie.lastViewedAt.v < threshold_date

\* line 145: a non-empty TMDb ID and a positive year
HasValidIdAndYear(plex_tmdb_id, plex_movie_year) ==
    /\ ~IsNone(plex_tmdb_id)
    /\ plex_tmdb_id.v # << >>
    /\ plex_movie_year > 0

\* lines 132-152: the loop over the movies of the section
RECURSIVE ScanLoop(_, _)
ScanLoop(ms, threshold_date) ==
    IF ms = << >> THEN << >>
    ELSE LET movie == Head(ms)
             plex_tmdb_id == plex_tmdb_id_of(movie.guids)
             plex_movie_year == plex_movie_year_of(movie)
             rest == ScanLoop(Tail(ms), threshold_date)
         IN  IF WatchedBefore(movie, threshold_date)
                /\ HasValidIdAndYear(plex_tmdb_id, plex_movie_year)
             THEN << [title |-> movie.title,
                      tmdb_id |-> plex_tmdb_id.v,
                      year |-> plex_movie_year] >> \o rest
             ELSE rest

\* lines 108-158; plex_result is what PlexServer(...).library.section(...)
\* .search(...) did: [ok, movies], ok = FALSE when it raised
get_watched_movies_older_than(days_ago, configured, plex_result, today) ==
    IF ~configured THEN << >>
    ELSE IF ~plex_result.ok THEN << >>
    ELSE ScanLoop(plex_result.movies, today - days_ago)

\* ------------------------------------------------------- Python dicts
\* A dict is a sequence of [k, v], in insertion order; assigning to a key
\* that is present replaces its value in place.
DictHas(d, k) == \E i \in 1..Len(d) : d[i].k = k

DictSet(d, k, v) ==
    IF DictHas(d, k)
    THEN [ i \in 1..Len(d) |-> IF d[i].k = k THEN [k |-> k, v |-> v] ELSE d[i] ]
    ELSE Append(d, [k |-> k, v |-> v])

\* mutant of DictValues: only the first value
DictValues_first(d) == IF d = << >> THEN << >> ELSE << d[1].v >>

DictValues(d) == [ i \in 1..Len(d) |-> d[i].v ]

\* ------------------------------------------------------ HTTP responses
\* What a requests call did: [kind, status, body].  kind is "response"
\* when the server answered, else the exception requests raised.  body is
\* the decoded JSON: [t, v] with t in "list", "object", "text" (not JSON).
Response(status, body) == [kind |-> "response", status |-> status, body |-> body]
Failure(kind) == [kind |-> kind, status |-> 0, body |-> [t |-> "text", v |-> << >>]]
NoBody == [t |-> "text", v |-> << >>]
JsonList(s) == [t |-> "list", v |-> s]
JsonObject == [t |-> "object", v |-> << >>]

\* response.raise_for_status() raises HTTPError
RaisesForStatus(response) == response.status >= 400 /\ response.status < 600

\* the call returned and raise_for_status() let it pass
Succeeded(response) == response.kind = "response" /\ ~RaisesForStatus(response)

\* mutant of check_radarr_api_auth: only 401 is an authentication failure
check_radarr_api_auth_401_only(configured, response) ==
    IF ~configured THEN FALSE
    ELSE IF response.kind = "response"
         THEN IF response.status = 401 THEN FALSE ELSE TRUE
         ELSE FALSE

\* lines 24-58
check_radarr_api_auth(configured, response) ==
    IF ~configured THEN FALSE
    ELSE IF response.kind = "response"
         THEN IF RaisesForStatus(response) THEN FALSE ELSE TRUE
         ELSE FALSE

\* lines 86-89: the loop over the tags of the response
RECURSIVE TagLoop(_, _, _)
TagLoop(tags_data, tag_names, tag_map) ==
    IF tags_data = << >> THEN tag_map
    ELSE LET tag == Head(tags_data)
         IN  IF /\ tag.label # << >>
                /\ tag.id # 0
                /\ Lower(tag.label) \in { Lower(name) : name \in Range(tag_names) }
             THEN TagLoop(Tail(tags_data), tag_names,
                          DictSet(tag_map, Lower(tag.label), tag.id))
             ELSE TagLoop(Tail(tags_data), tag_names, tag_map)

\* lines 61-103
get_radarr_tag_ids(tag_names, configured, response) ==
    IF ~configured THEN << >>
    ELSE IF ~Succeeded(response) THEN << >>
    ELSE IF response.body.t # "list" THEN << >>
    ELSE TagLoop(response.body.v, tag_names, << >>)

\* A catalog entry: [id, tmdbId, title, tags]; tmdbId = 0 and title = ""
\* stand for a missing or null field (the code only tests them for truth);
\* tags is None (null) or a list of tag IDs.
NotFound == [radarr_id |-> 0, tmdb_id |-> 0, radarr_title |-> "", radarr_tags |-> None]

\* lines 190-202: first entry of the catalog whose tmdbId, as a string,
\* equals the Plex TMDb ID
RECURSIVE MatchLoop(_, _)
MatchLoop(catalog, plex_tmdb_id) ==
    IF catalog = << >> THEN NotFound
    ELSE LET movie == Head(catalog)
         IN  IF movie.tmdbId # 0 /\ IntToStr(movie.tmdbId) = plex_tmdb_id
             THEN [radarr_id |-> movie.id, tmdb_id |-> movie.tmdbId,
                   radarr_title |-> movie.title, radarr_tags |-> movie.tags]
             ELSE MatchLoop(Tail(catalog), plex_tmdb_id)

\* lines 162-209
get_radarr_movie_details_for_processing(plex_movie_data, configured, response) ==
    IF ~configured THEN NotFound
    ELSE IF plex_movie_data.tmdb_id = << >> THEN NotFound
    ELSE IF ~Succeeded(response) THEN NotFound
    ELSE IF response.body.t # "list" THEN NotFound
    ELSE MatchLoop(response.body.v, plex_movie_data.tmdb_id)

\* lines 211-241
delete_radarr_movie_and_files(configured, response) ==
    IF ~configured THEN FALSE ELSE Succeeded(response)

\* line 259: the arguments the function refuses before any request
ExclusionArgsInvalid(tmdb_id, movie_title, movie_year) ==
    tmdb_id = 0 \/ movie_title = "" \/ movie_year = 0 \/ movie_year <= 0

ExistsCode == "ImportListExclusionExistsValidator"

\* mutant of add_to_radarr_exclusion_list: a 400 is a failure like any other
add_to_radarr_exclusion_list_strict(tmdb_id, movie_title, movie_year, configured, response) ==
    IF ~configured THEN "False"
    ELSE IF ExclusionArgsInvalid(tmdb_id, movie_title, movie_year) THEN "False"
    ELSE IF response.kind # "response" THEN "False"
    ELSE IF ~RaisesForStatus(response) THEN "True"
    ELSE "False"

\* lines 274-297: "True", "False", or "raise" when an exception leaves
\* the function (one raised inside the HTTPError handler, line 286)
add_to_radarr_exclusion_list(tmdb_id, movie_title, movie_year, configured, response) ==
    IF ~configured THEN "False"
    ELSE IF ExclusionArgsInvalid(tmdb_id, movie_title, movie_year) THEN "False"
    ELSE IF response.kind # "response" THEN "False"
    ELSE IF ~RaisesForStatus(response) THEN "True"
    ELSE IF response.status = 400
         THEN IF response.body.t = "text" THEN "False"
              ELSE IF response.body.t = "list"
                   THEN IF \E i \in 1..Len(response.body.v) :
                               response.body.v[i].errorCode = ExistsCode
                        THEN "True" ELSE "False"
                   ELSE "raise"
         ELSE "False"

\* whether add_to_radarr_exclusion_list reaches requests.post (line 276)
ExclusionPosts(tmdb_id, movie_title, movie_year, configured) ==
    configured /\ ~ExclusionArgsInvalid(tmdb_id, movie_title, movie_year)

\* ------------------------------------------------------ the main script
\* line 304: the run goes on only when the probe returned True
AuthPassed(auth_result) == auth_result

\* mutant of ProcessingEnabled: --no-prompt alone enables processing
ProcessingEnabled_any_flag(a) == a.process_radarr \/ a.no_prompt

\* lines 353, 415: the destructive path is taken only with --process-radarr
ProcessingEnabled(a) == a.process_radarr

\* mutant of Confirmed: an answer that starts with 'yes'
Confirmed_prefix(text) == StartsWith(Lower(Strip(text)), yes)

\* lines 376-377: what input() returned is stripped and lower-cased, and
\* must then equal 'yes'
Confirmed(text) == Lower(Strip(text)) = yes

\* line 372: the labels of the entry's tags; "raise" when radarr_tags is
\* None and the comprehension tests membership in it
TagLabelsRaise(tag_map, radarr_tags) == IsNone(radarr_tags) /\ tag_map # << >>

\* mutant of should_skip_due_to_tag: only the first exclusion tag ID is looked for
should_skip_first_id_only(exclude_tag_ids, radarr_tags) ==
    IF exclude_tag_ids = << >> THEN "proceed"
    ELSE IF IsNone(radarr_tags) THEN "raise"
    ELSE IF exclude_tag_ids[1] \in Range(radarr_tags.v)
         THEN "skip" ELSE "proceed"

\* lines 386-392: "skip", "proceed", or "raise" when radarr_tags is None
\* and there is an exclusion tag ID to look for in it
should_skip_due_to_tag(exclude_tag_ids, radarr_tags) ==
    IF exclude_tag_ids = << >> THEN "proceed"
    ELSE IF IsNone(radarr_tags) THEN "raise"
    ELSE IF \E i \in 1..Len(exclude_tag_ids) :
                exclude_tag_ids[i] \in Range(radarr_tags.v)
         THEN "skip" ELSE "proceed"

\* mutant of ExclusionAttempted: the result of the delete is not looked at
ExclusionAttempted_any_delete(delete_success, tmdb_id, movie_year_for_exclusion) ==
    /\ tmdb_id # 0
    /\ movie_year_for_exclusion # 0
    /\ movie_year_for_exclusion > 0

\* line 403: the exclusion is attempted
ExclusionAttempted(delete_success, tmdb_id, movie_year_for_exclusion) ==
    /\ delete_success
    /\ tmdb_id # 0
    /\ movie_year_for_exclusion # 0
    /\ movie_year_for_exclusion > 0

\* mutant of ReportedSuccess: the result of the exclusion is not looked at
ReportedSuccess_delete_only(delete_success, exclusion_success, tmdb_id, movie_year_for_exclusion) ==
    delete_success

\* line 410: the item is reported as successfully processed
ReportedSuccess(delete_success, exclusion_success, tmdb_id, movie_year_for_exclusion) ==
    /\ delete_success
    /\ \/ exclusion_success
       \/ tmdb_id = 0
       \/ movie_year_for_exclusion = 0
       \/ movie_year_for_exclusion <= 0

\* lines 411, 413: the line printed for an item
Report(title, delete_success, exclusion_success, tmdb_id, movie_year_for_exclusion) ==
    [title |-> title,
     kind |-> IF ReportedSuccess(delete_success, exclusion_success,
                                 tmdb_id, movie_year_for_exclusion)
              THEN "Successfully processed"
              ELSE "Finished processing with some issues",
     deleted |-> delete_success,
     excluded |-> exclusion_success]

\* line 365: the tuple stored under the Plex title
MatchTuple(plex_movie_data, r) ==
    [radarr_id |-> r.radarr_id,
     tmdb_id |-> r.tmdb_id,
     radarr_title |-> IF r.radarr_title # "" THEN r.radarr_title
                      ELSE plex_movie_data.title,
     year |-> plex_movie_data.year,
     radarr_tags |-> r.radarr_tags]

\* lines 362-365
StoreMatch(d, plex_movie_data, r) ==
    IF r.radarr_id # 0
    THEN DictSet(d, plex_movie_data.title, MatchTuple(plex_movie_data, r))
    ELSE d

\* the server answered 400 with a list of validation errors, one of them
\* saying the exclusion exists already (lines 282-286)
SaysExists(response) ==
    /\ response.kind = "response"
    /\ response.status = 400
    /\ response.body.t = "list"
    /\ \E i \in 1..Len(response.body.v) : response.body.v[i].errorCode = ExistsCode

\* a remote call, as observed: the operation, its target (Radarr ID for a
\* delete, TMDb ID for an exclusion), the exclusion payload, whether the
\* server answered with success, and whether it answered "exists already"
Call(op, arg, title, year, response) ==
    [op |-> op, arg |-> arg, title |-> title, year |-> year,
     ok |-> Succeeded(response),
     exists |-> op = "POST exclusions" /\ SaysExists(response)]

\* ---------------------------------------------------- the environment
\* --days default (line 323)
DefaultDays == 3

g_tmdb603 == tmdb_prefix \o << "6","0","3" >>
g_tmdb604 == tmdb_prefix \o << "6","0","4" >>
g_tmdb_empty == tmdb_prefix
g_imdb == << "i","m","d","b",":","/","/","t","t","1" >>

PlexMovie(title, lastViewedAt, guids, year) ==
    [title |-> title, lastViewedAt |-> lastViewedAt, guids |-> guids, year |-> year]

\* Movies the Plex section may hold in a full run: two with the same title
\* and different TMDb IDs, one with another title and the TMDb ID of the
\* first, and one watched too recently.
PlexPool ==
    { PlexMovie("Dune", Int_(2), << g_imdb, g_tmdb603 >>, Int_(2021)),
      PlexMovie("Dune", Int_(1), << g_tmdb604 >>, Int_(1984)),
      PlexMovie("Arrakis", Int_(3), << g_tmdb603 >>, Int_(2021)),
      PlexMovie("Heat", Int_(9), << g_tmdb604 >>, Int_(1995)) }

\* what the Plex search does (lines 124-127): a list of movies, or an exception
PlexResults ==
    { [ok |-> TRUE, movies |-> ms] : ms \in SeqsUpTo(PlexPool, MaxMovies) }
    \cup { [ok |-> FALSE, movies |-> << >>] }

Tag(id, label) == [id |-> id, label |-> label]

\* Tag lists the Radarr server may hold.
TagLists ==
    { << >>,
      << Tag(7, keep) >>,
      << Tag(7, << "K","e","e","p" >>), Tag(8, donotdelete) >>,
      << Tag(7, keep), Tag(8, << "K","E","E","P" >>) >> }

Entry(id, tmdbId, title, tags) ==
    [id |-> id, tmdbId |-> tmdbId, title |-> title, tags |-> tags]

\* Catalogs the Radarr server may hold.
Catalogs ==
    { << >>,
      << Entry(42, 603, "Dune (2021)", List_(<< >>)) >>,
      << Entry(42, 603, "Dune (2021)", List_(<< 7 >>)), Entry(43, 604, "", List_(<< >>)) >>,
      << Entry(42, 603, "Dune (2021)", List_(<< >>)), Entry(43, 604, "", List_(<< 5, 8 >>)) >>,
      << Entry(42, 603, "Dune (2021)", None), Entry(43, 604, "", List_(<< >>)) >>,
      << Entry(42, 603, "Dune (2021)", List_(<< >>)), Entry(43, 604, "Dune", List_(<< >>)) >> }

ExclusionLists == { { }, { 603 } }

\* GET /api/v3/system/status (line 38)
StatusResponses ==
    { Response(200, JsonObject), Response(401, NoBody), Response(403, NoBody),
      Response(500, NoBody), Failure("ConnectionError"), Failure("Timeout"),
      Failure("Exception") }

\* GET /api/v3/tag (line 82)
TagResponses(tag_list) ==
    { Response(200, JsonList(tag_list)), Response(200, NoBody),
      Response(500, NoBody), Failure("ConnectionError") }

\* GET /api/v3/movie (line 186)
CatalogResponses(catalog) ==
    { Response(200, JsonList(catalog)), Response(500, NoBody),
      Failure("ConnectionError") }

CatalogIds(catalog) == { catalog[i].id : i \in 1..Len(catalog) }

\* DELETE /api/v3/movie/{id} (line 231)
DeleteResponses(catalog, id) ==
    { IF id \in CatalogIds(catalog) THEN Response(200, JsonObject)
                                    ELSE Response(404, JsonObject),
      Response(500, NoBody), Failure("ConnectionError") }

\* the server's catalog after the response to a delete
CatalogAfterDelete(catalog, id, response) ==
    IF Succeeded(response)
    THEN SelectSeq(catalog, LAMBDA e : e.id # id)
    ELSE catalog

ValidationErrors(code) == JsonList(<< [errorCode |-> code] >>)

\* POST /api/v3/exclusions (line 276)
ExclusionResponses(exclusions, tmdb_id) ==
    { IF tmdb_id \in exclusions THEN Response(400, ValidationErrors(ExistsCode))
                                ELSE Response(201, JsonObject),
      Response(400, ValidationErrors("NotEmptyValidator")),
      Response(400, JsonObject), Response(400, NoBody),
      Response(500, NoBody), Failure("ConnectionError") }

\* the server's exclusion list after the response to a POST
ExclusionsAfterPost(exclusions, tmdb_id, response) ==
    IF Succeeded(response) THEN exclusions \cup { tmdb_id } ELSE exclusions

\* what input() does (line 376): a line of text, or EOFError
Inputs ==
    { [eof |-> FALSE, text |-> yes],
      [eof |-> FALSE, text |-> << " ","Y","E","S","\t" >>],
      [eof |-> FALSE, text |-> << "y" >>],
      [eof |-> FALSE, text |-> << "n","o" >>],
      [eof |-> FALSE, text |-> << "y","e","s","!" >>],
      [eof |-> FALSE, text |-> << >>],
      [eof |-> TRUE, text |-> << >>] }

\* -------------------------------------------------------------- Init
Init ==
    /\ radarr_configured \in BOOLEAN
    /\ plex_configured \in BOOLEAN
    /\ args \in [days : { DefaultDays }, process_radarr : BOOLEAN, no_prompt : BOOLEAN]
    /\ now \in { 10 }
    /\ radarr_tag_list \in TagLists
    /\ radarr_catalog \in Catalogs
    /\ radarr_exclusions \in ExclusionLists
    /\ pc = "auth"
    /\ exit_code = -1
    /\ tag_ids_map = << >>
    /\ EXCLUDE_TAG_IDS = << >>
    /\ movies = << >>
    /\ plex_watched_movies_data = << >>
    /\ movies_to_process_radarr = << >>
    /\ idx = 0
    /\ matched = << >>
    /\ calls = << >>
    /\ reports = << >>
    /\ confirmation = << >>

config == << radarr_configured, plex_configured, args, now >>
server == << radarr_tag_list, radarr_catalog, radarr_exclusions >>

\* the process ends: exit(code), the end of the script, or a traceback
Exit(code) == pc' = "done" /\ exit_code' = code
Crash == pc' = "crashed" /\ exit_code' = 1

\* ----------------------------------------------------------- actions
\* lines 304-306
AuthProbe ==
    /\ pc = "auth"
    /\ \E response \in StatusResponses :
          /\ calls' = IF radarr_configured
                      THEN Append(calls, Call("GET status", 0, "", 0, response))
                      ELSE calls
          /\ IF AuthPassed(check_radarr_api_auth(radarr_configured, response))
             THEN pc' = "tags" /\ exit_code' = exit_code
             ELSE Exit(1)
    /\ UNCHANGED << config, server, tag_ids_map, EXCLUDE_TAG_IDS, movies,
                    plex_watched_movies_data, movies_to_process_radarr, idx,
                    matched, reports, confirmation >>

\* lines 309-314
TagResolve ==
    /\ pc = "tags"
    /\ \E response \in TagResponses(radarr_tag_list) :
          /\ tag_ids_map' = get_radarr_tag_ids(EXCLUDE_TAG_NAMES, radarr_configured, response)
          /\ calls' = Append(calls, Call("GET tag", 0, "", 0, response))
    /\ EXCLUDE_TAG_IDS' = DictValues(tag_ids_map')
    /\ pc' = "scan"
    /\ UNCHANGED << config, server, exit_code, movies, plex_watched_movies_data,
                    movies_to_process_radarr, idx, matched, reports, confirmation >>

\* lines 343-353, 415-416
Scan ==
    /\ pc = "scan"
    /\ \E plex_result \in PlexResults :
          /\ plex_configured \/ ~plex_result.ok
          /\ movies' = plex_result.movies
          /\ plex_watched_movies_data' =
                get_watched_movies_older_than(args.days, plex_configured, plex_result, now)
          /\ calls' = IF plex_configured
                      THEN Append(calls, Call("PLEX search", 0, "", 0,
                                               IF plex_result.ok
                                               THEN Response(200, JsonObject)
                                               ELSE Failure("Exception")))
                      ELSE calls
    /\ IF plex_watched_movies_data' = << >>
       THEN Exit(0) /\ idx' = idx
       ELSE IF ProcessingEnabled(args)
            THEN pc' = "match" /\ idx' = 1 /\ exit_code' = exit_code
            ELSE Exit(0) /\ idx' = idx
    /\ UNCHANGED << config, server, tag_ids_map, EXCLUDE_TAG_IDS,
                    movies_to_process_radarr, matched, reports, confirmation >>

\* lines 359-368: one turn of the matching loop
Match ==
    /\ pc = "match"
    /\ idx <= Len(plex_watched_movies_data)
    /\ LET plex_movie_data == plex_watched_movies_data[idx]
       IN  \E response \in CatalogResponses(radarr_catalog) :
              LET r == get_radarr_movie_details_for_processing(
                           plex_movie_data, radarr_configured, response)
              IN  /\ matched' = Append(matched, r)
                  /\ movies_to_process_radarr' =
                        StoreMatch(movies_to_process_radarr, plex_movie_data, r)
                  /\ calls' = Append(calls, Call("GET movie", 0, "", 0, response))
    /\ IF idx < Len(plex_watched_movies_data)
       THEN pc' = pc /\ idx' = idx + 1 /\ exit_code' = exit_code
       ELSE IF movies_to_process_radarr' = << >>
            THEN Exit(0) /\ idx' = idx
            ELSE pc' = "list" /\ idx' = idx /\ exit_code' = exit_code
    /\ UNCHANGED << config, server, tag_ids_map, EXCLUDE_TAG_IDS, movies,
                    plex_watched_movies_data, reports, confirmation >>

\* lines 370-375, 380-381: the list of what will be processed
List ==
    /\ pc = "list"
    /\ IF \E i \in 1..Len(movies_to_process_radarr) :
             TagLabelsRaise(tag_ids_map, movies_to_process_radarr[i].v.radarr_tags)
       THEN Crash /\ idx' = idx
       ELSE IF ~args.no_prompt
            THEN pc' = "prompt" /\ idx' = idx /\ exit_code' = exit_code
            ELSE pc' = "process" /\ idx' = 1 /\ exit_code' = exit_code
    /\ UNCHANGED << config, server, tag_ids_map, EXCLUDE_TAG_IDS, movies,
                    plex_watched_movies_data, movies_to_process_radarr,
                    matched, calls, reports, confirmation >>

\* lines 376-379
Prompt ==
    /\ pc = "prompt"
    /\ \E in \in Inputs :
          /\ confirmation' = << in >>
          /\ IF in.eof
             THEN Crash /\ idx' = idx
             ELSE IF Confirmed(in.text)
                  THEN pc' = "process" /\ idx' = 1 /\ exit_code' = exit_code
                  ELSE Exit(0) /\ idx' = idx
    /\ UNCHANGED << config, server, tag_ids_map, EXCLUDE_TAG_IDS, movies,
                    plex_watched_movies_data, movies_to_process_radarr,
                    matched, calls, reports >>

\* after a turn of the processing loop: the next item, or the end (line 414)
NextItem ==
    IF idx < Len(movies_to_process_radarr)
    THEN pc' = pc /\ idx' = idx + 1 /\ exit_code' = exit_code
    ELSE Exit(0) /\ idx' = idx

\* lines 384-413: one turn of the processing loop
Process ==
    /\ pc = "process"
    /\ idx <= Len(movies_to_process_radarr)
    /\ LET title == movies_to_process_radarr[idx].k
           m == movies_to_process_radarr[idx].v
           decision == should_skip_due_to_tag(EXCLUDE_TAG_IDS, m.radarr_tags)
       IN  CASE decision = "raise" ->
                  /\ Crash /\ idx' = idx
                  /\ UNCHANGED << server, calls, reports >>
             [] decision = "skip" ->
                  /\ NextItem
                  /\ UNCHANGED << server, calls, reports >>
             [] OTHER ->
                  \E dresp \in DeleteResponses(radarr_catalog, m.radarr_id) :
                     LET delete_success ==
                             delete_radarr_movie_and_files(radarr_configured, dresp)
                         dcall == Call("DELETE movie", m.radarr_id, "", 0, dresp)
                     IN  /\ radarr_catalog' =
                               CatalogAfterDelete(radarr_catalog, m.radarr_id, dresp)
                         /\ IF /\ ExclusionAttempted(delete_success, m.tmdb_id, m.year)
                               /\ ExclusionPosts(m.tmdb_id, m.radarr_title, m.year,
                                                 radarr_configured)
                            THEN \E presp \in ExclusionResponses(radarr_exclusions, m.tmdb_id) :
                                    LET result == add_to_radarr_exclusion_list(
                                                      m.tmdb_id, m.radarr_title, m.year,
                                                      radarr_configured, presp)
                                    IN  /\ calls' = calls \o
                                              << dcall,
                                                 Call("POST exclusions", m.tmdb_id,
                                                      m.radarr_title, m.year, presp) >>
                                        /\ radarr_exclusions' = ExclusionsAfterPost(
                                              radarr_exclusions, m.tmdb_id, presp)
                                        /\ IF result = "raise"
                                           THEN /\ Crash /\ idx' = idx
                                                /\ reports' = reports
                                           ELSE /\ NextItem
                                                /\ reports' = Append(reports,
                                                      Report(title, delete_success,
                                                             result = "True",
                                                             m.tmdb_id, m.year))
                            ELSE /\ calls' = Append(calls, dcall)
                                 /\ radarr_exclusions' = radarr_exclusions
                                 /\ NextItem
                                 /\ reports' = Append(reports,
                                       Report(title, delete_success, FALSE,
                                              m.tmdb_id, m.year))
                         /\ radarr_tag_list' = radarr_tag_list
    /\ UNCHANGED << config, tag_ids_map, EXCLUDE_TAG_IDS, movies,
                    plex_watched_movies_data, movies_to_process_radarr,
                    matched, confirmation >>

Next ==
    \/ AuthProbe
    \/ TagResolve
    \/ Scan
    \/ Match
    \/ List
    \/ Prompt
    \/ Process

Spec == Init /\ [][Next]_vars

\* -------------------------------------------- the scanner on its own
tmdb_12_34 == tmdb_prefix \o << "1","2","/","/","3","4" >>

\* Movies the scanner is applied to: every combination of a last-viewed
\* date (none, before, at and after the cutoff), a list of guids and a year.
ScanPool ==
    { PlexMovie("Dune", lv, gs, y) :
        lv \in { None, Int_(5), Int_(7), Int_(9) },
        gs \in { << >>, << g_imdb, g_tmdb603 >>, << g_tmdb_empty, g_tmdb603 >>,
                 << tmdb_12_34, g_tmdb603 >> },
        y \in { None, Int_(-1), Int_(2021) } }

InitScan ==
    /\ radarr_configured = TRUE
    /\ plex_configured = TRUE
    /\ args \in [days : { 1, DefaultDays }, process_radarr : { FALSE }, no_prompt : { FALSE }]
    /\ now \in { 10 }
    /\ radarr_tag_list = << >>
    /\ radarr_catalog = << >>
    /\ radarr_exclusions = { }
    /\ pc = "scan"
    /\ exit_code = -1
    /\ tag_ids_map = << >>
    /\ EXCLUDE_TAG_IDS = << >>
    /\ movies \in SeqsUpTo(ScanPool, MaxScanLen)
    /\ plex_watched_movies_data = << >>
    /\ movies_to_process_radarr = << >>
    /\ idx = 0
    /\ matched = << >>
    /\ calls = << >>
    /\ reports = << >>
    /\ confirmation = << >>

\* line 343 on the movies of the section, the search succeeding or raising
ScanSection ==
    /\ pc = "scan"
    /\ \E ok \in BOOLEAN :
          LET plex_result == [ok |-> ok, movies |-> IF ok THEN movies ELSE << >>]
          IN  /\ plex_watched_movies_data' =
                    get_watched_movies_older_than(args.days, plex_configured,
                                                  plex_result, now)
              /\ calls' = Append(calls, Call("PLEX search", 0, "", 0,
                                             IF ok THEN Response(200, JsonObject)
                                                   ELSE Failure("Exception")))
    /\ pc' = "scanned"
    /\ UNCHANGED << config, server, exit_code, tag_ids_map, EXCLUDE_TAG_IDS, movies,
                    movies_to_process_radarr, idx, matched, reports, confirmation >>

NextScan == ScanSection

SpecScan == InitScan /\ [][NextScan]_vars

\* ============================================================ claims
IsDelete(c) == c.op = "DELETE movie"
IsExclusion(c) == c.op = "POST exclusions"
NoMutatingCall == \A i \in 1..Len(calls) : ~IsDelete(calls[i]) /\ ~IsExclusion(calls[i])

\* the probe is over and the server did not answer it with success, or the
\* configuration was missing and no request was made
ProbeFailed ==
    /\ pc # "auth"
    /\ \/ ~radarr_configured
       \/ Len(calls) >= 1 /\ calls[1].op = "GET status" /\ ~calls[1].ok

\* C1: when the auth probe fails for any reason (missing configuration, 401,
\* 403, another HTTP error, connection error, timeout, anything else), the
\* run has ended with exit code 1 and no call was issued after the probe:
\* no Plex search, no tag or catalog fetch, no delete, no exclusion POST.
C1_AbortOnAuthFailure ==
    ProbeFailed =>
        /\ pc = "done"
        /\ exit_code = 1
        /\ \A i \in 1..Len(calls) : i = 1 /\ calls[i].op = "GET status"

C1_Witness ==
    /\ ProbeFailed
    /\ radarr_configured
    /\ pc = "done"
    /\ args.process_radarr /\ args.no_prompt
    /\ radarr_catalog # << >>

\* the prompt was shown and answered with a line of text
Answered == confirmation # << >> /\ ~confirmation[1].eof

Declined == pc = "done" /\ exit_code = 0 /\ NoMutatingCall

\* C2 as claimed: when the prompt was answered with anything but the exact
\* string 'yes', the run has ended with exit code 0 and without a delete
\* call or an exclusion POST.
C2_AsClaimed ==
    (Answered /\ confirmation[1].text # yes) => Declined

\* C2, amended: when the prompt was answered with a line that, stripped of
\* surrounding whitespace and lower-cased, is not 'yes', the run has ended
\* with exit code 0 and without a delete call or an exclusion POST.
C2_DeclineStopsRun ==
    (Answered /\ Lower(Strip(confirmation[1].text)) # yes) => Declined

C2_Witness ==
    /\ Answered
    /\ confirmation[1].text = << "y","e","s","!" >>
    /\ Declined
    /\ Len(movies_to_process_radarr) >= 1

\* C3: without --process-radarr no delete call and no exclusion POST is
\* issued, whatever Plex returns and whatever the other flags are.
C3_ListingOnly ==
    ~args.process_radarr => NoMutatingCall

C3_Witness ==
    /\ ~args.process_radarr
    /\ args.no_prompt
    /\ pc = "done"
    /\ exit_code = 0
    /\ Len(plex_watched_movies_data) >= 2
    /\ radarr_catalog # << >>

\* the matcher found an entry and the entry carries a resolved exclusion tag ID
CarriesExcludedId(r) ==
    /\ r.radarr_id # 0
    /\ ~IsNone(r.radarr_tags)
    /\ \E t \in Range(r.radarr_tags.v) : t \in Range(EXCLUDE_TAG_IDS)

\* C4: for a matched entry whose tag-ID list holds one of the exclusion tag
\* IDs resolved in this run, no delete call is issued for its Radarr ID and
\* no exclusion POST for its TMDb ID.
C4_TaggedNeverProcessed ==
    \A k \in 1..Len(matched) :
        CarriesExcludedId(matched[k]) =>
            \A i \in 1..Len(calls) :
                /\ ~(IsDelete(calls[i]) /\ calls[i].arg = matched[k].radarr_id)
                /\ ~(IsExclusion(calls[i]) /\ calls[i].arg = matched[k].tmdb_id)

\* a tagged entry was skipped in a run that went through the processing
\* loop and deleted another entry
C4_Witness ==
    /\ pc = "done"
    /\ exit_code = 0
    /\ \E k \in 1..Len(matched) : CarriesExcludedId(matched[k])
    /\ \E i \in 1..Len(calls) : IsDelete(calls[i]) /\ calls[i].ok

\* the entry carries, on the server, a tag labelled with an exclusion tag
\* name, compared case-insensitively
ExclusionNames == { Lower(name) : name \in Range(EXCLUDE_TAG_NAMES) }

ProtectingTags(r) ==
    { i \in 1..Len(radarr_tag_list) :
        /\ r.radarr_id # 0
        /\ ~IsNone(r.radarr_tags)
        /\ radarr_tag_list[i].id \in Range(r.radarr_tags.v)
        /\ Lower(radarr_tag_list[i].label) \in ExclusionNames }

Deleted(radarr_id) ==
    \E i \in 1..Len(calls) :
        IsDelete(calls[i]) /\ calls[i].arg = radarr_id /\ calls[i].ok

\* C5 as claimed: an entry that carries a tag labelled 'keep' or
\* 'donotdelete' is never deleted, whatever the tag-list fetch returned.
C5_AsClaimed ==
    \A k \in 1..Len(matched) :
        ProtectingTags(matched[k]) # { } => ~Deleted(matched[k].radarr_id)

\* the Tag Resolver resolved the tag: tag_ids_map maps its lower-cased
\* label to its ID
Resolved(tag) ==
    \E j \in 1..Len(tag_ids_map) :
        tag_ids_map[j].k = Lower(tag.label) /\ tag_ids_map[j].v = tag.id

\* C5, amended: an entry that carries a tag labelled 'keep' or
\* 'donotdelete' (case-insensitively) is never deleted in a run in which
\* the Tag Resolver resolved that tag.
C5_ResolvedTagProtects ==
    \A k \in 1..Len(matched) :
        (\E i \in ProtectingTags(matched[k]) : Resolved(radarr_tag_list[i]))
            => ~Deleted(matched[k].radarr_id)

\* an entry protected by a resolved 'donotdelete' tag survived a run that
\* deleted another entry
C5_Witness ==
    /\ pc = "done"
    /\ exit_code = 0
    /\ \E k \in 1..Len(matched) :
          \E i \in ProtectingTags(matched[k]) :
              /\ Resolved(radarr_tag_list[i])
              /\ Lower(radarr_tag_list[i].label) = donotdelete
    /\ \E i \in 1..Len(calls) : IsDelete(calls[i]) /\ calls[i].ok

\* ---- C6: the scanner
Min(S) == CHOOSE x \in S : \A y \in S : x <= y

TmdbGuids(movie) ==
    { i \in 1..Len(movie.guids) : StartsWith(movie.guids[i], tmdb_prefix) }

\* the text of a guid between 'tmdb://' and the next '//', or its end
ExternalId(guid) ==
    LET rest == SubSeq(guid, Len(tmdb_prefix) + 1, Len(guid))
        cut == { j \in 1..(Len(rest) - 1) : rest[j] = "/" /\ rest[j + 1] = "/" }
    IN  IF cut = { } THEN rest ELSE SubSeq(rest, 1, Min(cut) - 1)

\* the external ID of a movie: that of its first guid prefixed 'tmdb://'
ExternalIdOf(movie) == ExternalId(movie.guids[Min(TmdbGuids(movie))])

Qualifies(movie, cutoff) ==
    /\ movie.lastViewedAt # None
    /\ movie.lastViewedAt.v < cutoff
    /\ TmdbGuids(movie) # { }
    /\ ExternalIdOf(movie) # << >>
    /\ movie.year # None
    /\ movie.year.v > 0

ExpectedScan ==
    LET kept == SelectSeq(movies, LAMBDA movie : Qualifies(movie, now - args.days))
    IN  [ i \in 1..Len(kept) |->
            [title |-> kept[i].title,
             tmdb_id |-> ExternalIdOf(kept[i]),
             year |-> kept[i].year.v] ]

\* C6: when the Plex search succeeds, the scanner returns, in Plex's order,
\* exactly the movies whose last-viewed date is set and strictly before
\* now - days, whose first 'tmdb://' guid has a non-empty ID, and whose year
\* is positive; every other movie is left out.
C6_ScannerSelects ==
    (pc = "scanned" /\ calls[1].ok) => plex_watched_movies_data = ExpectedScan

\* a movie watched exactly at the cutoff is dropped, the next one is kept
C6_Witness ==
    /\ pc = "scanned"
    /\ calls[1].ok
    /\ Len(movies) = 2
    /\ movies[1].lastViewedAt = Int_(now - args.days)
    /\ TmdbGuids(movies[1]) # { }
    /\ movies[1].year = Int_(2021)
    /\ Len(plex_watched_movies_data) = 1
    /\ plex_watched_movies_data[1].tmdb_id = << "1","2" >>

\* ---- C7-C10: the processing loop
DeletesUpTo(i) == Cardinality({ j \in 1..i : IsDelete(calls[j]) })

\* the position in calls of the k-th delete call
NthDelete(k) == CHOOSE i \in 1..Len(calls) : IsDelete(calls[i]) /\ DeletesUpTo(i) = k

Accepted(c) == c.ok \/ c.exists

\* C7: an exclusion POST that the server accepts (2xx), or answers with 400
\* and the error code ImportListExclusionExistsValidator because the
\* exclusion exists already, counts as a success: the item, whose delete
\* succeeded, is reported as successfully processed and excluded.
C7_ExclusionIdempotent ==
    \A i \in 1..Len(calls) :
        (IsExclusion(calls[i]) /\ Accepted(calls[i])) =>
            LET k == DeletesUpTo(i)
            IN  /\ Len(reports) >= k
                /\ reports[k].kind = "Successfully processed"
                /\ reports[k].deleted
                /\ reports[k].excluded

\* TMDb ID 603 was on the exclusion list, was submitted again and answered
\* with "exists already"
C7_Witness ==
    /\ 603 \in radarr_exclusions
    /\ \E i \in 1..Len(calls) :
          /\ IsExclusion(calls[i])
          /\ calls[i].arg = 603
          /\ calls[i].exists
          /\ reports[DeletesUpTo(i)].kind = "Successfully processed"

\* the run went through the confirmation gate and ended normally
RunCompleted ==
    /\ pc = "done"
    /\ exit_code = 0
    /\ movies_to_process_radarr # << >>
    /\ Len(matched) = Len(plex_watched_movies_data)
    /\ \/ args.no_prompt
       \/ Answered /\ Lower(Strip(confirmation[1].text)) = yes

\* C8 as claimed: in a run that passes the gate, every watched item that
\* the matcher matched and no exclusion tag filters gets a delete call for
\* its Radarr ID.
C8_AsClaimed ==
    RunCompleted =>
        \A k \in 1..Len(matched) :
            (matched[k].radarr_id # 0 /\ ~CarriesExcludedId(matched[k])) =>
                \E i \in 1..Len(calls) :
                    IsDelete(calls[i]) /\ calls[i].arg = matched[k].radarr_id

Unfiltered ==
    { j \in 1..Len(movies_to_process_radarr) :
        ~CarriesExcludedId(movies_to_process_radarr[j].v) }

\* C9: an exclusion POST directly follows a successful delete call of the
\* same item and carries a TMDb ID and a positive year; after a failed
\* delete no POST follows; and a run that ends normally has issued one
\* delete call per item of the list that no tag filters, failed or not.
C9_ExclusionAfterDelete ==
    /\ \A i \in 1..Len(calls) :
          IsExclusion(calls[i]) =>
              /\ i > 1
              /\ IsDelete(calls[i - 1])
              /\ calls[i - 1].ok
              /\ calls[i].arg # 0
              /\ calls[i].year > 0
              /\ \E j \in 1..Len(movies_to_process_radarr) :
                    LET m == movies_to_process_radarr[j].v
                    IN  /\ m.radarr_id = calls[i - 1].arg
                        /\ m.tmdb_id = calls[i].arg
                        /\ m.year = calls[i].year
    /\ \A i \in 1..Len(calls) :
          (IsDelete(calls[i]) /\ ~calls[i].ok /\ i < Len(calls)) =>
              IsDelete(calls[i + 1])
    /\ RunCompleted => DeletesUpTo(Len(calls)) = Cardinality(Unfiltered)

\* a failed delete, then the next item deleted and excluded
C9_Witness ==
    \E i \in 1..Len(calls) :
        /\ IsDelete(calls[i]) /\ ~calls[i].ok
        /\ Len(calls) >= i + 2
        /\ IsDelete(calls[i + 1]) /\ calls[i + 1].ok
        /\ IsExclusion(calls[i + 2])

\* C10: the line printed for an item says "Successfully processed" exactly
\* when its delete call succeeded and its exclusion was accepted; it says
\* "with some issues", Deleted: True, Excluded: False when the delete
\* succeeded and the exclusion did not; and "with some issues", Deleted:
\* False when the delete failed.
C10_Outcome ==
    \A k \in 1..Len(reports) :
        LET i == NthDelete(k)
            del == calls[i].ok
            exc == /\ i < Len(calls)
                   /\ IsExclusion(calls[i + 1])
                   /\ Accepted(calls[i + 1])
        IN  /\ (reports[k].kind = "Successfully processed") <=> (del /\ exc)
            /\ (del /\ ~exc) =>
                  /\ reports[k].kind = "Finished processing with some issues"
                  /\ reports[k].deleted
                  /\ ~reports[k].excluded
            /\ ~del =>
                  /\ reports[k].kind = "Finished processing with some issues"
                  /\ ~reports[k].deleted

\* one item failed and another was deleted but not excluded
C10_Witness ==
    /\ Len(reports) = 2
    /\ ~reports[1].deleted
    /\ reports[2].deleted /\ ~reports[2].excluded
    /\ reports[2].kind = "Finished processing with some issues"

\* ---- C11: remote errors and unexpected responses
\* the process ended with an uncaught exception raised by input() at the
\* prompt, not by anything a server answered
EndedOnEOF == confirmation # << >> /\ confirmation[1].eof

\* C11 as claimed: after a successful auth probe no remote error and no
\* unexpected response (a failed request, a non-2xx status, a 400 or 200
\* body of any JSON shape, a catalog entry whose tags are null) ends the
\* run with an uncaught exception: the run only ever ends abnormally when
\* input() itself fails.
C11_AsClaimed ==
    pc = "crashed" => EndedOnEOF

====
